---- MODULE Spec2Model ----
(***************************************************************************)
(* Model of blue_archive/get_resources_v2.py: get_default_lang_data and    *)
(* BlueArchiveResourceProcessor.get_chars / get_filters.                   *)
(*                                                                         *)
(* A Python str is modelled as a sequence of atoms.  An atom is a piece of *)
(* text the code never looks inside: a single character where the code     *)
(* indexes characters (ids), a separator (" ", "_", "/"), a marker         *)
(* ("Portrait_", "_Collection") or an opaque word.  Concatenation is \o,   *)
(* str.split(sep) splits at the atom sep.                                  *)
(***************************************************************************)
EXTENDS Integers, Sequences, FiniteSets, TLC

VARIABLES
    d_data,     \* get_default_lang_data: the CharData argument
    d_out,      \* get_default_lang_data: what the call produced
    missing_key_raises, \* whether cfg[key] on an absent key raises KeyError
    f_files,    \* get_filters: lang/schools.yaml and lang/clubs.yaml as loaded
    f_out,      \* get_filters: what the call produced
    char_data,  \* data/char_data.json: the list of CharData
    club_data,  \* manual/clubs.yaml: the list of GroupData
    school_data, \* manual/schools.yaml: the list of GroupData
    excluded_portraits, \* manual/excluded_portraits.txt: a set of basenames
    img_mappings, \* legacy/img_mappings.json: a list of <<key, value>>
    disk,       \* the image references whose .png exists under the asset root
    store,      \* lang/char.yaml: the list of CharLangData
    noschool_file, \* manual/noschool.generated.txt
    noclub_file, \* manual/noclub.generated.txt
    run,        \* which invocation of get_chars this is
    pc,         \* get_chars: position in the code
    raised,     \* get_chars: the exception that ended the call
    writes,     \* get_chars: the files this call has written
    idx,        \* get_chars: index of the CharData being processed
    translations, \* get_chars: the translations, in dict order
    updated_translations, \* get_chars: the dirty flag
    result,     \* get_chars: the Characters built
    avatar_files, \* get_chars: canonical image name -> image reference
    image_config, \* get_chars: the image references with h_crop = top
    chars_without_school, \* get_chars: the Characters, as positions in result
    chars_without_club, \* get_chars: the Characters, as positions in result
    returned    \* get_chars: whether the call returned its result

defVars == <<d_data, d_out>>

filtVars == <<f_files, f_out>>

inputVars == <<char_data, club_data, school_data, excluded_portraits,
               img_mappings, disk>>

fileVars == <<store, noschool_file, noclub_file>>

localVars == <<idx, translations, updated_translations, result, avatar_files,
               image_config, chars_without_school, chars_without_club>>

charVars == <<inputVars, fileVars, localVars, run, pc, raised, writes, returned>>

otherVars == <<d_data, d_out, f_files, f_out, missing_key_raises>>

vars == <<d_data, d_out, missing_key_raises, f_files, f_out, charVars>>

----------------------------------------------------------------------------
(* Bounds of the model *)

MaxIdLen == 5

MaxGroups == 2

MaxChars == 2

----------------------------------------------------------------------------
(* Python str operations *)

\* The value None (never equal to a str of the model)
None == <<"<None>">>

Space == " "

\* s.split(sep): the pieces of s between the occurrences of the atom sep;
\* always at least one piece, empty pieces are kept
RECURSIVE Split(_, _)
Split(s, sep) ==
    IF s = <<>> THEN << <<>> >>
    ELSE IF Head(s) = sep THEN << <<>> >> \o Split(Tail(s), sep)
    ELSE LET r == Split(Tail(s), sep)
         IN  << <<Head(s)>> \o Head(r) >> \o Tail(r)

\* sep.join(parts)
RECURSIVE Join(_, _)
Join(parts, sep) ==
    IF parts = <<>> THEN <<>>
    ELSE IF Len(parts) = 1 THEN Head(parts)
    ELSE Head(parts) \o <<sep>> \o Join(Tail(parts), sep)

\* c.upper() on the characters ids are made of
Upper(c) ==
    CASE c = "n" -> "N"
      [] c = "p" -> "P"
      [] c = "c" -> "C"
      [] c = "a" -> "A"
      [] c = "b" -> "B"
      [] OTHER -> c

\* s.strip(): leading and trailing spaces removed
RECURSIVE LStrip(_)
LStrip(s) == IF s # <<>> /\ Head(s) = Space THEN LStrip(Tail(s)) ELSE s

RECURSIVE RStrip(_)
RStrip(s) ==
    IF s # <<>> /\ s[Len(s)] = Space THEN RStrip(SubSeq(s, 1, Len(s) - 1)) ELSE s

Strip(s) == RStrip(LStrip(s))

\* s[-1] of a non-empty list
Last(s) == s[Len(s)]

\* [x for x in s if x != drop]
RECURSIVE Without(_, _)
Without(s, drop) ==
    IF s = <<>> THEN <<>>
    ELSE IF Head(s) = drop THEN Without(Tail(s), drop)
    ELSE <<Head(s)>> \o Without(Tail(s), drop)

\* The order of the code points of the atoms that strings are compared on
\* (upper case before lower case; a word stands at its first letter)
Ord(a) ==
    CASE a = "A" -> 1
      [] a = "Aru" -> 2
      [] a = "B" -> 3
      [] a = "Default" -> 4
      [] a = "Hina" -> 5
      [] a = "N" -> 6
      [] a = "_" -> 7
      [] a = "_Collection" -> 8
      [] a = "a" -> 9
      [] a = "b" -> 10
      [] a = "c" -> 11
      [] a = "n" -> 12
      [] a = "p" -> 13
      [] OTHER -> 0

\* s < t on str
RECURSIVE StrLess(_, _)
StrLess(s, t) ==
    IF t = <<>> THEN FALSE
    ELSE IF s = <<>> THEN TRUE
    ELSE IF Head(s) = Head(t) THEN StrLess(Tail(s), Tail(t))
    ELSE Ord(Head(s)) < Ord(Head(t))

\* sorted(items, key=lambda x: x.k) on a list of [k, v]: stable, ascending
RECURSIVE InsertByKey(_, _)
InsertByKey(x, sorted) ==
    IF sorted = <<>> THEN <<x>>
    ELSE IF StrLess(x.k, Head(sorted).k) THEN <<x>> \o sorted
    ELSE <<Head(sorted)>> \o InsertByKey(x, Tail(sorted))

RECURSIVE SortByKey(_)
SortByKey(items) ==
    IF items = <<>> THEN <<>>
    ELSE InsertByKey(items[Len(items)], SortByKey(SubSeq(items, 1, Len(items) - 1)))

\* sorted(strs)
Sorted(strs) ==
    LET s == SortByKey([i \in 1..Len(strs) |-> [k |-> strs[i], v |-> strs[i]]])
    IN  [i \in 1..Len(s) |-> s[i].v]

----------------------------------------------------------------------------
(* blue_archive.common *)

\* all_langs: the language codes every name mapping must carry
all_langs == {"ja", "en", "ko", "zh-cn", "zh-tw"}

\* name_to_id(ruby): romanization of a reading, kana by kana
Romaji(k) ==
    CASE k = "#ri" -> "Ri"
      [] k = "#ku" -> "ku"
      [] k = "#a"  -> "A"
      [] k = "#ru" -> "ru"
      [] OTHER -> k

name_to_id(ruby) == [i \in 1..Len(ruby) |-> Romaji(ruby[i])]

----------------------------------------------------------------------------
(* get_default_lang_data *)

NPC == <<"n", "p", "c">>

\* s[0].upper() + s[1:]
Capitalize(s) == <<Upper(s[1])>> \o Tail(s)

\* line 33: the tokens of the id that are kept
IdTokens(id) == Without(Split(id, "_"), NPC)

\* line 33 raises IndexError (s[0] of an empty token)
DefaultRaises(data) ==
    /\ data.family_name = <<>>
    /\ \E i \in 1..Len(IdTokens(data.id)) : IdTokens(data.id)[i] = <<>>

DefaultJa(data) ==
    IF Len(data.family_name) > 0
    THEN data.family_name \o <<Space>> \o data.personal_name
    ELSE data.personal_name

DefaultEnMutNoFilter(data) ==
    IF Len(data.family_name) > 0
    THEN IF Len(data.personal_name_ruby) > 0
         THEN name_to_id(data.family_name_ruby) \o <<Space>>
                  \o name_to_id(data.personal_name_ruby)
         ELSE name_to_id(data.family_name_ruby) \o <<Space>> \o data.id
    ELSE LET toks == Split(data.id, "_")
         IN  Join([i \in 1..Len(toks) |-> Capitalize(toks[i])], Space)

DefaultEnMutBothRuby(data) ==
    IF Len(data.family_name) > 0
    THEN IF Len(data.personal_name_ruby) > 0 /\ Len(data.family_name_ruby) > 0
         THEN name_to_id(data.family_name_ruby) \o <<Space>>
                  \o name_to_id(data.personal_name_ruby)
         ELSE name_to_id(data.family_name_ruby) \o <<Space>> \o data.id
    ELSE LET toks == IdTokens(data.id)
         IN  Join([i \in 1..Len(toks) |-> Capitalize(toks[i])], Space)

DefaultEn(data) ==
    IF Len(data.family_name) > 0
    THEN IF Len(data.personal_name_ruby) > 0
         THEN name_to_id(data.family_name_ruby) \o <<Space>>
                  \o name_to_id(data.personal_name_ruby)
         ELSE name_to_id(data.family_name_ruby) \o <<Space>> \o data.id
    ELSE LET toks == IdTokens(data.id)
         IN  Join([i \in 1..Len(toks) |-> Capitalize(toks[i])], Space)

DefaultKo(data) ==
    IF Len(data.family_name) > 0
    THEN Strip(data.family_name_kr \o <<Space>> \o data.personal_name_kr)
    ELSE <<>>

\* The CharLangData of lines 36-45
get_default_lang_data(data) ==
    [id |-> data.id,
     name |-> [l \in all_langs |->
                  CASE l = "ja" -> DefaultJa(data)
                    [] l = "en" -> DefaultEn(data)
                    [] l = "ko" -> DefaultKo(data)
                    [] OTHER -> <<>>],
     short_name |-> <<>>]

----------------------------------------------------------------------------
(* Inputs of get_default_lang_data *)

IdChars == {"n", "p", "c", "N", "_"}

RECURSIVE StrsUpTo(_, _)
StrsUpTo(chars, n) ==
    IF n = 0 THEN {<<>>}
    ELSE LET shorter == StrsUpTo(chars, n - 1)
         IN  shorter \cup {<<c>> \o s : c \in chars, s \in {t \in shorter : Len(t) = n - 1}}

CharData(id, fam, per, famRuby, perRuby, famKr, perKr, imgs) ==
    [id |-> id, family_name |-> fam, personal_name |-> per,
     family_name_ruby |-> famRuby, personal_name_ruby |-> perRuby,
     family_name_kr |-> famKr, personal_name_kr |-> perKr,
     image_files |-> imgs]

\* Records without a family name, over every id of the bound
NoFamilyInputs ==
    {CharData(id, <<>>, <<"P">>, <<>>, <<>>, <<>>, <<>>, <<>>) :
        id \in StrsUpTo(IdChars, MaxIdLen)}

\* Records with a family name: each reading present or not
FamilyInputs ==
    {CharData(id, <<"F">>, <<"P">>, fr, pr, fk, pk, <<>>) :
        id \in {<<"a">>, <<"n", "p", "c", "_", "b">>},
        fr \in {<<>>, <<"#ri", "#ku">>},
        pr \in {<<>>, <<"#a", "#ru">>},
        fk \in {<<>>, <<"K">>},
        pk \in {<<>>, <<"L">>}}

DefaultInputs == NoFamilyInputs \cup FamilyInputs

IdleDefault ==
    /\ d_data = CharData(<<>>, <<>>, <<>>, <<>>, <<>>, <<>>, <<>>, <<>>)
    /\ d_out = [status |-> "idle"]

IdleFilters ==
    /\ f_files = [key \in {"schools", "clubs"} |-> <<>>]
    /\ f_out = [status |-> "idle"]

IdleChars ==
    /\ char_data = <<>>
    /\ club_data = <<>>
    /\ school_data = <<>>
    /\ excluded_portraits = {}
    /\ img_mappings = <<>>
    /\ disk = {}
    /\ store = <<>>
    /\ noschool_file = <<>>
    /\ noclub_file = <<>>
    /\ run = 0
    /\ pc = "idle"
    /\ raised = "none"
    /\ writes = {}
    /\ idx = 0
    /\ translations = <<>>
    /\ updated_translations = FALSE
    /\ result = <<>>
    /\ avatar_files = <<>>
    /\ image_config = {}
    /\ chars_without_school = <<>>
    /\ chars_without_club = <<>>
    /\ returned = FALSE

InitDefault ==
    /\ d_data \in DefaultInputs
    /\ d_out = [status |-> "none"]
    /\ missing_key_raises = TRUE
    /\ IdleFilters
    /\ IdleChars

\* One call of get_default_lang_data(d_data)
CallDefault ==
    /\ d_out.status = "none"
    /\ d_out' = IF DefaultRaises(d_data)
                THEN [status |-> "IndexError"]
                ELSE [status |-> "ok", value |-> get_default_lang_data(d_data)]
    /\ UNCHANGED <<d_data, missing_key_raises, filtVars, charVars>>

NextDefault == CallDefault

SpecDefault == InitDefault /\ [][NextDefault]_vars

----------------------------------------------------------------------------
(* Properties of get_default_lang_data *)

NpcWord == <<"N", "p", "c">>

IsNotNpc(t) == t # NPC

\* The tokens of the called id that are not "npc", as the claims describe them
KeptTokens == SelectSeq(Split(d_data.id, "_"), IsNotNpc)

EnWords == Split(d_out.value.name["en"], Space)

\* C6 as stated: whatever the id, a record without family name gets an
\* English name none of whose words is "Npc"
C6_NoNpcWordForAnyId ==
    (d_out.status = "ok" /\ d_data.family_name = <<>>)
        => \A i \in 1..Len(EnWords) : EnWords[i] # NpcWord

\* C6 amended: without a family name the call returns iff no kept token of
\* the id is empty (otherwise IndexError); the words of the English name are
\* the non-"npc" tokens of the id in order, each with its first character
\* upper-cased, and a word "Npc" appears only where the id has the token "Npc"
C6_EnglishNameWithoutFamily ==
    (d_out.status # "none" /\ d_data.family_name = <<>>) =>
        /\ (d_out.status = "IndexError")
               <=> (\E i \in 1..Len(KeptTokens) : KeptTokens[i] = <<>>)
        /\ d_out.status = "ok" =>
            /\ EnWords = IF KeptTokens = <<>> THEN << <<>> >>
                         ELSE [i \in 1..Len(KeptTokens) |->
                                  <<Upper(Head(KeptTokens[i]))>> \o Tail(KeptTokens[i])]
            /\ \A i \in 1..Len(EnWords) :
                   EnWords[i] = NpcWord
                       => \E j \in 1..Len(KeptTokens) : KeptTokens[j] = NpcWord

\* C6 witness: an id with an "npc" token and another token has been named
C6_Witness ==
    /\ d_out.status = "ok"
    /\ d_data.family_name = <<>>
    /\ Len(KeptTokens) < Len(Split(d_data.id, "_"))
    /\ d_out.value.name["en"] = <<"N">>

RubyPair == name_to_id(d_data.family_name_ruby) \o <<Space>>
                \o name_to_id(d_data.personal_name_ruby)

RubyAndId == name_to_id(d_data.family_name_ruby) \o <<Space>> \o d_data.id

\* C7 as stated: with a family name, the English name is the two romanized
\* readings exactly when both readings are non-empty, else reading and id
C7_BothRubyFieldsDecide ==
    (d_out.status = "ok" /\ d_data.family_name # <<>>) =>
        d_out.value.name["en"] =
            IF d_data.family_name_ruby # <<>> /\ d_data.personal_name_ruby # <<>>
            THEN RubyPair ELSE RubyAndId

\* C7 amended: with a family name, the English name is the two romanized
\* readings exactly when the personal reading is non-empty (the family
\* reading is not examined), else the romanized family reading and the id
C7_PersonalRubyDecides ==
    (d_out.status # "none" /\ d_data.family_name # <<>>) =>
        /\ d_out.status = "ok"
        /\ d_out.value.name["en"] =
               IF d_data.personal_name_ruby # <<>> THEN RubyPair ELSE RubyAndId

\* C7 witness: a family name, no family reading, a personal reading
C7_Witness ==
    /\ d_out.status = "ok"
    /\ d_data.family_name # <<>>
    /\ d_data.family_name_ruby = <<>>
    /\ d_data.personal_name_ruby # <<>>
    /\ d_out.value.name["en"] = <<Space, "A", "ru">>

----------------------------------------------------------------------------
(* get_filters *)

\* lang/group_types.yaml: the display label of each category
type_names == [schools |-> <<"School">>, clubs |-> <<"Club">>]

FilterKeys == <<"schools", "clubs">>

\* line 170: sorted(groups, key=lambda gp: gp.id)
SortGroups(groups) ==
    LET s == SortByKey([i \in 1..Len(groups) |-> [k |-> groups[i].id, v |-> groups[i]]])
    IN  [i \in 1..Len(s) |-> s[i].v]

\* line 173 raises KeyError: gp.name[k] for a language the mapping lacks
NormalizeRaises(name) ==
    missing_key_raises /\ \E k \in all_langs : k \notin DOMAIN name

\* line 173: {k: gp.name[k] or "" for k in all_langs}
\* (an absent key that does not raise reads as None)
NormalizeName(name) ==
    [k \in all_langs |->
        IF k \in DOMAIN name /\ name[k] # None /\ name[k] # <<>>
        THEN name[k] ELSE <<>>]

\* lines 174-180
FilterGroup(key, groups) ==
    [key |-> key,
     label |-> type_names[key],
     ids |-> [i \in 1..Len(groups) |-> groups[i].id],
     names |-> [i \in 1..Len(groups) |-> NormalizeName(groups[i].name)],
     flags |-> [i \in 1..Len(groups) |-> FALSE]]

GroupsRaise(groups) == \E i \in 1..Len(groups) : NormalizeRaises(groups[i].name)

\* lines 165-182
get_filters(files) ==
    IF \E n \in 1..Len(FilterKeys) : GroupsRaise(files[FilterKeys[n]])
    THEN [status |-> "KeyError"]
    ELSE [status |-> "ok",
          value |-> [n \in 1..Len(FilterKeys) |->
                        FilterGroup(FilterKeys[n], SortGroups(files[FilterKeys[n]]))]]

(* Inputs of get_filters *)

FullName == [k \in all_langs |-> <<"X">>]

\* Name mappings as the YAML can hold them: complete, with null or empty
\* values, with a language missing, with a key that is no required language
FilterNames ==
    { FullName,
      [FullName EXCEPT !["zh-tw"] = None],
      [FullName EXCEPT !["ko"] = <<>>, !["zh-cn"] = None],
      [k \in all_langs \ {"zh-tw"} |-> <<"X">>],
      [k \in {"ja"} |-> <<"X">>],
      [k \in all_langs \cup {"fr"} |-> IF k = "en" THEN None ELSE <<"X">>] }

FilterGroupIds == {<<"a">>, <<"B">>}

GroupLangData == {[id |-> i, name |-> n] : i \in FilterGroupIds, n \in FilterNames}

RECURSIVE SeqsUpTo(_, _)
SeqsUpTo(S, n) ==
    IF n = 0 THEN {<<>>}
    ELSE LET shorter == SeqsUpTo(S, n - 1)
         IN  shorter \cup {<<x>> \o s : x \in S, s \in {t \in shorter : Len(t) = n - 1}}

InitFilters ==
    /\ f_files \in [{"schools", "clubs"} -> SeqsUpTo(GroupLangData, MaxGroups)]
    /\ f_out = [status |-> "none"]
    /\ missing_key_raises \in BOOLEAN
    /\ IdleDefault
    /\ IdleChars

\* One call of get_filters()
CallFilters ==
    /\ f_out.status = "none"
    /\ f_out' = get_filters(f_files)
    /\ UNCHANGED <<f_files, missing_key_raises, defVars, charVars>>

NextFilters == CallFilters

SpecFilters == InitFilters /\ [][NextFilters]_vars

(* Properties of get_filters *)

\* The name mappings get_filters read, category by category
SourceNames(n) ==
    {f_files[FilterKeys[n]][i].name : i \in 1..Len(f_files[FilterKeys[n]])}

SubstitutedName(name) ==
    [k \in all_langs |->
        IF k \in DOMAIN name /\ name[k] # None THEN name[k] ELSE <<>>]

\* C5: once get_filters has been called it has returned, and every group
\* record of either category, whatever languages its source mapping has,
\* has a returned name mapping over exactly the required languages, with the
\* empty string wherever the source value was null or absent
C5_NamesCompleteForAnySource ==
    f_out.status # "none" =>
        /\ f_out.status = "ok"
        /\ \A n \in 1..Len(FilterKeys) :
               /\ \A i \in 1..Len(f_out.value[n].names) :
                      DOMAIN f_out.value[n].names[i] = all_langs
               /\ {f_out.value[n].names[i] : i \in 1..Len(f_out.value[n].names)}
                      = {SubstitutedName(nm) : nm \in SourceNames(n)}

----------------------------------------------------------------------------
(* get_chars: helpers *)

\* The protected Japanese name of line 90 (the literal is written in kana)
Sentinel == <<"HatsuneMiku">>

\* c.lower() on the characters ids are made of
Lower(c) ==
    CASE c = "N" -> "n"
      [] c = "A" -> "a"
      [] c = "B" -> "b"
      [] OTHER -> c

LowerStr(s) == [k \in 1..Len(s) |-> Lower(s[k])]

\* Position of the key cid in the dict (0: not a key)
IndexOfId(trs, cid) ==
    IF \E k \in 1..Len(trs) : trs[k].id = cid
    THEN CHOOSE k \in 1..Len(trs) : trs[k].id = cid
    ELSE 0

\* d[t.id] = t: a new key goes last, an old key keeps its place
DictSet(trs, t) ==
    IF IndexOfId(trs, t.id) = 0 THEN Append(trs, t)
    ELSE [trs EXCEPT ![IndexOfId(trs, t.id)] = t]

\* line 64: {t.id: t for t in translations}
RECURSIVE LoadInto(_, _)
LoadInto(acc, st) ==
    IF st = <<>> THEN acc ELSE LoadInto(DictSet(acc, Head(st)), Tail(st))

LoadStore(st) == LoadInto(<<>>, st)

\* lines 16-20: {v.split("/")[-1]: k for k, v in mappings.items() if len(v) > 0}
RECURSIVE LegacyInto(_, _)
LegacyInto(acc, ms) ==
    IF ms = <<>> THEN acc
    ELSE LET k == Head(ms)[1]
             v == Head(ms)[2]
             base == Last(Split(v, "/"))
         IN  IF Len(v) > 0
             THEN LegacyInto([n \in DOMAIN acc \cup {base} |->
                                 IF n = base THEN k ELSE acc[n]], Tail(ms))
             ELSE LegacyInto(acc, Tail(ms))

get_legacy_image_mappings == LegacyInto(<<>>, img_mappings)

\* cfg[key] of a name mapping (None where an absent key does not raise)
GetName(trans, lang) ==
    IF lang \in DOMAIN trans.name THEN trans.name[lang] ELSE None

\* lines 88-90: the stale-name test
NeedsRefreshMutNoSentinel(trans, def) ==
    GetName(trans, "ja") # def.name["ja"]

NeedsRefresh(trans, def) ==
    GetName(trans, "ja") # def.name["ja"] /\ GetName(trans, "ja") # Sentinel

\* lines 92-93
Refreshed(trans, def) ==
    [trans EXCEPT !.name =
        [l \in DOMAIN trans.name \cup {"ja", "en"} |->
            IF l \in {"ja", "en"} THEN def.name[l] ELSE trans.name[l]]]

\* trans.name[lang] = ... of line 93 writes into the mapping object that the
\* Characters already built for the same id hold as their names (line 109)
Aliased(chars, trans) ==
    [j \in 1..Len(chars) |->
        IF chars[j].id = trans.id THEN [chars[j] EXCEPT !.names = trans.name]
        ELSE chars[j]]

\* lines 95-100
NeedsBackfill(trans) == \E l \in all_langs : l \notin DOMAIN trans.name

Backfilled(trans, def) ==
    [trans EXCEPT !.name =
        [l \in DOMAIN trans.name \cup all_langs |->
            IF l \in DOMAIN trans.name THEN trans.name[l] ELSE def.name[l]]]

\* lines 102-105
ShortNames(trans) ==
    LET sn == trans.short_name
    IN  [l \in DOMAIN sn \cup all_langs |->
            IF l \in all_langs /\ (l \notin DOMAIN sn \/ Len(sn[l]) = 0)
            THEN Last(Split(trans.name[l], Space))
            ELSE sn[l]]

\* [gp.id for gp in groups if cid in gp.members]
RECURSIVE GroupsOf(_, _)
GroupsOf(cid, groups) ==
    IF groups = <<>> THEN <<>>
    ELSE IF cid \in Head(groups).members
         THEN <<Head(groups).id>> \o GroupsOf(cid, Tail(groups))
         ELSE GroupsOf(cid, Tail(groups))

GroupIdsMutUnsorted(cid) == GroupsOf(cid, club_data \o school_data)

\* line 112
GroupIds(cid) == Sorted(GroupsOf(cid, club_data \o school_data))

\* name.index("Portrait_"): 0 stands for ValueError
MarkerIndex(name) ==
    IF \E k \in 1..Len(name) : name[k] = "Portrait_"
    THEN CHOOSE k \in 1..Len(name) :
             name[k] = "Portrait_" /\ \A j \in 1..(k - 1) : name[j] # "Portrait_"
    ELSE 0

\* lines 121-124 (for a basename that is mapped or carries the marker)
Canonical(base) ==
    IF base \in DOMAIN get_legacy_image_mappings
    THEN get_legacy_image_mappings[base]
    ELSE SubSeq(base, MarkerIndex(base) + 1, Len(base))

Basename(img) == Last(Split(img, "/"))

\* lines 125-129: the exception one image reference ends in ("none": accepted)
ImageErrorMutNoDuplicateCheck(img, avatar) ==
    LET base == Basename(img)
    IN  IF base \notin DOMAIN get_legacy_image_mappings /\ MarkerIndex(base) = 0
        THEN "ValueError"
        ELSE IF Len(Canonical(base)) = 0 THEN "AssertionError: empty"
        ELSE IF img \notin disk THEN "AssertionError: no file"
        ELSE "none"

ImageError(img, avatar) ==
    LET base == Basename(img)
    IN  IF base \notin DOMAIN get_legacy_image_mappings /\ MarkerIndex(base) = 0
        THEN "ValueError"
        ELSE IF Len(Canonical(base)) = 0 THEN "AssertionError: empty"
        ELSE IF Canonical(base) \in DOMAIN avatar THEN "AssertionError: Duplicate"
        ELSE IF img \notin disk THEN "AssertionError: no file"
        ELSE "none"

\* lines 116-136: the loop over data.image_files
RECURSIVE ProcessImages(_, _)
ProcessImages(imgs, acc) ==
    IF imgs = <<>> \/ acc.err # "none" THEN acc
    ELSE LET img == Head(imgs)
             base == Basename(img)
         IN  IF base \in excluded_portraits THEN ProcessImages(Tail(imgs), acc)
             ELSE IF ImageError(img, acc.avatar) # "none"
             THEN [acc EXCEPT !.err = ImageError(img, acc.avatar)]
             ELSE ProcessImages(Tail(imgs),
                    [err |-> "none",
                     images |-> Append(acc.images, Canonical(base)),
                     avatar |-> [n \in DOMAIN acc.avatar \cup {Canonical(base)} |->
                                    IF n = Canonical(base) THEN img ELSE acc.avatar[n]],
                     config |-> IF Last(base) = "_Collection"
                                THEN acc.config \cup {img} ELSE acc.config])

SortedImagesMutUnsorted(images) == images

\* line 138
SortedImages(images) == Sorted(images)

\* lines 140, 142
InNoGroup(cid, groups) == \A k \in 1..Len(groups) : cid \notin groups[k].members

\* lines 147-148: sorted(translations.values(), key=lambda x: x.id.lower())
SortedStore(trs) ==
    LET s == SortByKey([k \in 1..Len(trs) |-> [k |-> LowerStr(trs[k].id), v |-> trs[k]]])
    IN  [k \in 1..Len(s) |-> s[k].v]

\* lines 151-152, 154-155: the entries written before char.images[0] raises
RECURSIVE ReportEntries(_)
ReportEntries(chars) ==
    IF chars = <<>> \/ Head(chars).images = <<>> THEN <<>>
    ELSE <<[id |-> Head(chars).id,
            ja |-> Head(chars).names["ja"],
            image |-> Head(chars).images[1]]>> \o ReportEntries(Tail(chars))

ReportRaises(chars) == \E k \in 1..Len(chars) : chars[k].images = <<>>

----------------------------------------------------------------------------
(* get_chars: the call, step by step *)

data == char_data[idx]

\* The Character objects a list of positions refers to
Characters(positions) == [j \in 1..Len(positions) |-> result[positions[j]]]

Raise(exc) ==
    /\ pc' = "raised"
    /\ raised' = exc

LoadInputsMutOpensReports ==
    /\ pc = "start"
    /\ translations' = LoadStore(store)
    /\ updated_translations' = FALSE
    /\ result' = <<>>
    /\ avatar_files' = <<>>
    /\ image_config' = {}
    /\ chars_without_school' = <<>>
    /\ chars_without_club' = <<>>
    /\ idx' = 1
    /\ pc' = IF char_data = <<>> THEN "persist" ELSE "merge"
    /\ writes' = {"noschool", "noclub"}
    /\ UNCHANGED <<otherVars, inputVars, fileVars, run, raised, returned>>

\* lines 53-75: the inputs are loaded, the accumulators are empty
LoadInputs ==
    /\ pc = "start"
    /\ translations' = LoadStore(store)
    /\ updated_translations' = FALSE
    /\ result' = <<>>
    /\ avatar_files' = <<>>
    /\ image_config' = {}
    /\ chars_without_school' = <<>>
    /\ chars_without_club' = <<>>
    /\ idx' = 1
    /\ pc' = IF char_data = <<>> THEN "persist" ELSE "merge"
    /\ UNCHANGED <<otherVars, inputVars, fileVars, run, raised, writes, returned>>

\* lines 78-94: the default translation; a new id adopts it, a known id has
\* its stale Japanese and English names refreshed
MergeTranslation ==
    /\ pc = "merge"
    /\ IF DefaultRaises(data)
       THEN /\ Raise("IndexError")
            /\ UNCHANGED <<translations, result, updated_translations>>
       ELSE LET def == get_default_lang_data(data)
                k == IndexOfId(translations, data.id)
            IN  IF k = 0
                THEN /\ translations' = Append(translations, def)
                     /\ updated_translations' = TRUE
                     /\ pc' = "build"
                     /\ UNCHANGED <<raised, result>>
                ELSE IF "ja" \notin DOMAIN translations[k].name /\ missing_key_raises
                THEN /\ Raise("KeyError")
                     /\ UNCHANGED <<translations, result, updated_translations>>
                ELSE /\ IF NeedsRefresh(translations[k], def)
                        THEN /\ translations' = [translations EXCEPT
                                     ![k] = Refreshed(translations[k], def)]
                             /\ result' = Aliased(result, Refreshed(translations[k], def))
                             /\ updated_translations' = TRUE
                        ELSE UNCHANGED <<translations, result, updated_translations>>
                     /\ pc' = "backfill"
                     /\ UNCHANGED raised
    /\ UNCHANGED <<otherVars, inputVars, fileVars, run, writes, returned, idx,
                   avatar_files, image_config, chars_without_school,
                   chars_without_club>>

\* lines 95-100: languages the known translation lacks get the default
BackfillLanguages ==
    /\ pc = "backfill"
    /\ LET def == get_default_lang_data(data)
           k == IndexOfId(translations, data.id)
       IN  IF NeedsBackfill(translations[k])
           THEN /\ translations' = [translations EXCEPT
                        ![k] = Backfilled(translations[k], def)]
                /\ updated_translations' = TRUE
           ELSE UNCHANGED <<translations, updated_translations>>
    /\ pc' = "build"
    /\ UNCHANGED <<otherVars, inputVars, fileVars, run, raised, writes, returned, idx, result,
                   avatar_files, image_config, chars_without_school,
                   chars_without_club>>

\* lines 102-143: short names, the Character, its images, the two lists
BuildCharacter ==
    /\ pc = "build"
    /\ LET cid == data.id
           trans == translations[IndexOfId(translations, cid)]
           imgs == ProcessImages(data.image_files,
                       [err |-> "none", images |-> <<>>,
                        avatar |-> avatar_files, config |-> image_config])
           char == [id |-> cid,
                    names |-> trans.name,
                    short_names |-> ShortNames(trans),
                    relations |-> <<>>,
                    groups |-> GroupIds(cid),
                    images |-> SortedImages(imgs.images)]
       IN  IF imgs.err # "none"
           THEN /\ Raise(imgs.err)
                /\ UNCHANGED <<idx, result, avatar_files, image_config,
                               chars_without_school, chars_without_club>>
           ELSE /\ result' = Append(result, char)
                /\ avatar_files' = imgs.avatar
                /\ image_config' = imgs.config
                /\ chars_without_school' =
                       IF InNoGroup(cid, school_data)
                       THEN Append(chars_without_school, Len(result) + 1)
                       ELSE chars_without_school
                /\ chars_without_club' =
                       IF InNoGroup(cid, club_data)
                       THEN Append(chars_without_club, Len(result) + 1)
                       ELSE chars_without_club
                /\ idx' = idx + 1
                /\ pc' = IF idx = Len(char_data) THEN "persist" ELSE "merge"
                /\ UNCHANGED raised
    /\ UNCHANGED <<otherVars, inputVars, fileVars, run, writes, returned, translations,
                   updated_translations>>

PersistMutInverted ==
    /\ pc = "persist"
    /\ IF ~updated_translations
       THEN /\ store' = SortedStore(translations)
            /\ writes' = writes \cup {"char.yaml"}
       ELSE UNCHANGED <<store, writes>>
    /\ pc' = "reports"
    /\ UNCHANGED <<otherVars, inputVars, noschool_file, noclub_file, localVars, run, raised,
                   returned>>

\* lines 145-148: the translation store is rewritten when dirty
Persist ==
    /\ pc = "persist"
    /\ IF updated_translations
       THEN /\ store' = SortedStore(translations)
            /\ writes' = writes \cup {"char.yaml"}
       ELSE UNCHANGED <<store, writes>>
    /\ pc' = "reports"
    /\ UNCHANGED <<otherVars, inputVars, noschool_file, noclub_file, localVars, run, raised,
                   returned>>

\* lines 150-157: the two reports are written and the call returns;
\* char.images[0] of a character without images raises IndexError
WriteReports ==
    /\ pc = "reports"
    /\ noschool_file' = ReportEntries(Characters(chars_without_school))
    /\ IF ReportRaises(Characters(chars_without_school))
       THEN /\ writes' = writes \cup {"noschool"}
            /\ Raise("IndexError")
            /\ UNCHANGED <<noclub_file, returned>>
       ELSE /\ noclub_file' = ReportEntries(Characters(chars_without_club))
            /\ writes' = writes \cup {"noschool", "noclub"}
            /\ IF ReportRaises(Characters(chars_without_club))
               THEN /\ Raise("IndexError")
                    /\ UNCHANGED returned
               ELSE /\ pc' = "done"
                    /\ returned' = TRUE
                    /\ UNCHANGED raised
    /\ UNCHANGED <<otherVars, inputVars, store, localVars, run>>

\* The tool is run again on the files the first run left (lines 185-186);
\* the new call starts with no locals
Rerun ==
    /\ pc = "done"
    /\ run = 1
    /\ run' = 2
    /\ pc' = "start"
    /\ writes' = {}
    /\ returned' = FALSE
    /\ idx' = 0
    /\ translations' = <<>>
    /\ updated_translations' = FALSE
    /\ result' = <<>>
    /\ avatar_files' = <<>>
    /\ image_config' = {}
    /\ chars_without_school' = <<>>
    /\ chars_without_club' = <<>>
    /\ UNCHANGED <<otherVars, inputVars, fileVars, raised>>

Next ==
    \/ LoadInputs
    \/ MergeTranslation
    \/ BackfillLanguages
    \/ BuildCharacter
    \/ Persist
    \/ WriteReports
    \/ Rerun

\* A single invocation
NextOnce ==
    \/ LoadInputs
    \/ MergeTranslation
    \/ BackfillLanguages
    \/ BuildCharacter
    \/ Persist
    \/ WriteReports

----------------------------------------------------------------------------
(* Inputs of get_chars *)

IdA == <<"a">>
IdNpcB == <<"n", "p", "c", "_", "b">>
IdB == <<"B">>

ImgAru == <<"UIs", "/", "Student_", "Portrait_", "Aru">>
ImgAruCollection == <<"UIs", "/", "Student_", "Portrait_", "Aru", "_Collection">>
ImgHina == <<"UIs", "/", "Student_", "Portrait_", "Hina">>
ImgDefault == <<"UIs", "/", "NPC_", "Portrait_", "Default">>
ImgNpcAru == <<"UIs", "/", "NPC_", "Portrait_", "Aru">>
ImgBare == <<"UIs", "/", "Student_", "Portrait_">>
ImgIcon == <<"UIs", "/", "Icon">>

AllImages == {ImgAru, ImgAruCollection, ImgHina, ImgDefault, ImgNpcAru, ImgBare, ImgIcon}

\* Who the records are: two records share the id "a" under different family
\* names, one has no family name, one has a family name and no personal name
Identity(n, imgs) ==
    CASE n = 1 -> CharData(IdA, <<"F">>, <<"P">>, <<"#ri">>, <<"#a">>, <<"K">>, <<"L">>, imgs)
      [] n = 2 -> CharData(IdNpcB, <<>>, <<"Q">>, <<>>, <<>>, <<>>, <<>>, imgs)
      [] n = 3 -> CharData(IdB, <<"F">>, <<>>, <<"#ri">>, <<>>, <<>>, <<>>, imgs)
      [] OTHER -> CharData(IdA, <<"G">>, <<"P">>, <<"#ku">>, <<"#a">>, <<>>, <<>>, imgs)

IdentityNumbers == 1..4

\* Name mappings and translations of the store
Names(ja, en) ==
    [l \in all_langs |-> CASE l = "ja" -> ja [] l = "en" -> en [] OTHER -> <<>>]

Translation(id, name, short) == [id |-> id, name |-> name, short_name |-> short]

TranslationsOfA ==
    { Translation(IdA, Names(<<"F", " ", "P">>, <<"Ri", " ", "A">>), <<>>),
      Translation(IdA, Names(<<"P">>, <<"Old">>), <<>>),
      Translation(IdA, Names(Sentinel, <<"Miku">>), <<>>),
      Translation(IdA, [l \in {"ja", "ko"} |-> <<"F", " ", "P">>], <<>>),
      Translation(IdA, [l \in {"en"} |-> <<"Old">>], <<>>),
      Translation(IdA, Names(<<"F", " ", "P">>, <<"Ri", " ", "A">>),
                  [l \in {"ja", "en", "fr"} |-> IF l = "en" THEN <<"Sn">> ELSE <<>>]),
      Translation(IdA, Names(<<"F", " ", "P">>, <<" ", "Ri", " ", " ", "A", " ">>), <<>>) }

TranslationsOfNpcB ==
    { Translation(IdNpcB, Names(<<"Q">>, <<"B">>), <<>>),
      Translation(IdNpcB, Names(<<"R">>, <<"B">>), <<>>) }

\* lang/char.yaml: at most one record per id, in either order, or a file
\* that repeats an id
Stores ==
    {<<>>}
    \cup {<<a>> : a \in TranslationsOfA}
    \cup {<<b>> : b \in TranslationsOfNpcB}
    \cup {<<b, a>> : a \in TranslationsOfA, b \in TranslationsOfNpcB}
    \cup {<<a, b, a>> : a \in TranslationsOfA, b \in TranslationsOfNpcB}

Group(id, members) == [id |-> id, members |-> members]

SchoolFiles ==
    { <<>>,
      <<Group(<<"b">>, {IdA})>>,
      <<Group(<<"b">>, {IdA, IdNpcB}), Group(<<"a">>, {IdA})>> }

\* the last file reuses the id of a school
ClubFiles ==
    { <<>>,
      <<Group(<<"A">>, {IdA, IdB})>>,
      <<Group(<<"b">>, {IdA})>> }

MappingFiles ==
    { <<>>,
      << << <<"Default">>, <<"old", "/", "Icon">> >>,
         << <<"Gone">>, <<>> >> >>,
      << << <<"Aru">>, <<"old", "/", "Student_", "Portrait_", "Hina">> >> >> }

ExcludedFiles == { {}, {Basename(ImgNpcAru)} }

Disks == { AllImages, AllImages \ {ImgHina} }

InitRun ==
    /\ noschool_file = <<>>
    /\ noclub_file = <<>>
    /\ run = 1
    /\ pc = "start"
    /\ raised = "none"
    /\ writes = {}
    /\ idx = 0
    /\ translations = <<>>
    /\ updated_translations = FALSE
    /\ result = <<>>
    /\ avatar_files = <<>>
    /\ image_config = {}
    /\ chars_without_school = <<>>
    /\ chars_without_club = <<>>
    /\ returned = FALSE
    /\ IdleDefault
    /\ IdleFilters

\* The image each identity comes with where the images are not varied
OwnImages(n) ==
    CASE n = 1 -> <<ImgAru>>
      [] n = 2 -> <<ImgAruCollection>>
      [] n = 3 -> <<ImgDefault>>
      [] OTHER -> <<ImgHina>>

\* The translation merge: any list of records, any store
Init ==
    /\ char_data \in SeqsUpTo({Identity(n, OwnImages(n)) : n \in IdentityNumbers},
                              MaxChars)
    /\ store \in Stores
    /\ school_data \in {<<>>, <<Group(<<"b">>, {IdA, IdNpcB, IdB})>>}
    /\ club_data = <<Group(<<"A">>, {IdA, IdNpcB, IdB})>>
    /\ excluded_portraits = {}
    /\ img_mappings = <<>>
    /\ disk = AllImages
    /\ missing_key_raises \in BOOLEAN
    /\ InitRun

Spec == Init /\ [][Next]_vars

ImageLists ==
    { <<>>, <<ImgAru>>, <<ImgHina, ImgAruCollection>>, <<ImgHina, ImgAru>>,
      <<ImgNpcAru>>, <<ImgBare>>, <<ImgIcon>> }

\* Lists of records with distinct identities, each with any image list
RECURSIVE CharLists(_)
CharLists(n) ==
    IF n = 0 THEN {<<>>}
    ELSE CharLists(n - 1)
         \cup {Append(cs, Identity(((n - 1) % Cardinality(IdentityNumbers)) + 1, imgs)) :
                  cs \in {c \in CharLists(n - 1) : Len(c) = n - 1},
                  imgs \in ImageLists}

\* The images, the groups and the reports: any images, any files around them
InitImages ==
    /\ char_data \in CharLists(MaxChars)
    /\ store \in {<<>>, <<Translation(IdA, Names(<<"F", " ", "P">>, <<"Ri", " ", "A">>), <<>>),
                          Translation(IdNpcB, Names(<<"Q">>, <<"B">>), <<>>)>>}
    /\ school_data \in SchoolFiles
    /\ club_data \in ClubFiles
    /\ excluded_portraits \in ExcludedFiles
    /\ img_mappings \in MappingFiles
    /\ disk \in Disks
    /\ missing_key_raises = TRUE
    /\ InitRun

SpecImages == InitImages /\ [][NextOnce]_vars

----------------------------------------------------------------------------
(* Properties of get_chars: the translation merge *)

DistinctIds ==
    \A j, k \in 1..Len(char_data) : j # k => char_data[j].id # char_data[k].id

\* C1 as stated: whatever the inputs, the second run on the files the first
\* run left never sets the dirty flag and never writes the translation store
C1_SecondRunCleanForAnyInput ==
    run = 2 => (~updated_translations /\ "char.yaml" \notin writes)

\* C1 amended: when the ids of the source list are pairwise distinct, the
\* second run on the files the first run left never sets the dirty flag and
\* never writes the translation store
C1_SecondRunCleanForDistinctIds ==
    (run = 2 /\ DistinctIds) => (~updated_translations /\ "char.yaml" \notin writes)

\* C1 witness: the second run has returned without a write, on a store that
\* only the first run can have written (it holds a record for the id "B")
C1_Witness ==
    /\ run = 2
    /\ returned
    /\ DistinctIds
    /\ Len(char_data) = 2
    /\ \E k \in 1..Len(store) : store[k].id = IdB
    /\ "char.yaml" \notin writes

IsWord(piece) == piece # <<>>

\* The last whitespace-separated token of a display name ("" when none)
LastToken(name) ==
    LET words == SelectSeq(Split(name, Space), IsWord)
    IN  IF words = <<>> THEN <<>> ELSE words[Len(words)]

\* C8: in every returned Character and every required language the short
\* name is the existing short name when there is a non-empty one, and
\* otherwise the last whitespace-separated token of the display name
C8_ShortNameIsLastToken ==
    returned =>
        \A k \in 1..Len(result) : \A l \in all_langs :
            LET existing == translations[IndexOfId(translations, result[k].id)].short_name
            IN  result[k].short_names[l] =
                    IF l \in DOMAIN existing /\ existing[l] # <<>>
                    THEN existing[l]
                    ELSE LastToken(result[k].names[l])

\* C9: the step of lines 86-94 on a character that has a translation
\* overwrites the Japanese and the English name with the defaults and marks
\* the store dirty when the Japanese name differs from the default and is
\* not the sentinel; otherwise it changes no translation and not the flag
C9_RefreshIffStale ==
    [][(pc = "merge" /\ pc' = "backfill") =>
        LET k == IndexOfId(translations, data.id)
            def == get_default_lang_data(data)
            old_ja == IF "ja" \in DOMAIN translations[k].name
                      THEN translations[k].name["ja"] ELSE None
        IN  IF old_ja # def.name["ja"] /\ old_ja # Sentinel
            THEN /\ translations'[k].name["ja"] = def.name["ja"]
                 /\ translations'[k].name["en"] = def.name["en"]
                 /\ updated_translations'
            ELSE /\ translations' = translations
                 /\ updated_translations' = updated_translations]_vars

\* C9 witness: the step has refreshed a stale record of the first run's store
C9_Witness ==
    /\ pc = "backfill"
    /\ run = 1
    /\ store = <<Translation(IdA, Names(<<"P">>, <<"Old">>), <<>>)>>
    /\ translations[1].name["ja"] = <<"F", " ", "P">>
    /\ translations[1].name["en"] = <<"Ri", " ", "A">>
    /\ updated_translations

----------------------------------------------------------------------------
(* Properties of get_chars: images, groups, reports *)

AssertionErrors ==
    {"AssertionError: empty", "AssertionError: Duplicate", "AssertionError: no file"}

\* The image references of record k that are not excluded and have a
\* canonical name (a legacy mapping or the marker)
Named(k) ==
    {char_data[k].image_files[m] : m \in
        {n \in 1..Len(char_data[k].image_files) :
            LET base == Basename(char_data[k].image_files[n])
            IN  /\ base \notin excluded_portraits
                /\ (base \in DOMAIN get_legacy_image_mappings \/ MarkerIndex(base) # 0)}}

CanonicalOf(img) == Canonical(Basename(img))

ImageSet(char) == {char.images[m] : m \in 1..Len(char.images)}

\* C2: at every point no canonical name is held by two Characters or twice
\* by one, the image map has exactly the names the Characters hold, and
\* get_chars does not return when two distinct records have image
\* references with the same canonical name
C2_CanonicalNamesUnique ==
    /\ \A p, q \in 1..Len(result) :
           p # q => ImageSet(result[p]) \cap ImageSet(result[q]) = {}
    /\ \A p \in 1..Len(result) :
           Cardinality(ImageSet(result[p])) = Len(result[p].images)
    /\ DOMAIN avatar_files = UNION {ImageSet(result[p]) : p \in 1..Len(result)}
    /\ returned =>
           \A p, q \in 1..Len(char_data) : p # q =>
               \A a \in Named(p), b \in Named(q) : CanonicalOf(a) # CanonicalOf(b)

\* C2 witness: the second record's reference has the canonical name of one
\* the first record holds, and the call has ended in the Duplicate assertion
C2_Witness ==
    /\ pc = "raised"
    /\ raised = "AssertionError: Duplicate"
    /\ idx = 2
    /\ Len(result) = 1
    /\ \E b \in Named(2) : CanonicalOf(b) \in ImageSet(result[1])

\* C3: when get_chars ends in one of the three assertions, this call has
\* written no file and has not returned; a file is written only once every
\* record has been made a Character
C3_NoOutputOnAssertion ==
    /\ (pc = "raised" /\ raised \in AssertionErrors) =>
           /\ writes = {}
           /\ ~returned
           /\ noschool_file = <<>>
           /\ noclub_file = <<>>
    /\ writes # {} => Len(result) = Len(char_data)
    /\ returned => pc = "done"

\* C3 witness: the dirty flag was set and the second record's file is missing
C3_Witness ==
    /\ pc = "raised"
    /\ raised = "AssertionError: no file"
    /\ updated_translations
    /\ Len(result) = 1
    /\ writes = {}

NoSchool(k) == \A j \in 1..Len(school_data) : char_data[k].id \notin school_data[j].members

NoSchoolRecords == SelectSeq([k \in 1..Len(char_data) |-> k], NoSchool)

\* The least of the image names of a Character
FirstSorted(char) ==
    CHOOSE x \in ImageSet(char) : \A y \in ImageSet(char) : ~StrLess(y, x)

AllGroups == club_data \o school_data

Count(seq, x) == Cardinality({m \in 1..Len(seq) : seq[m] = x})

\* C10 as stated: every returned Character's group list holds an id iff a group with
\* the character as member has that id, is ascending, and repeats no id
C10_GroupListWithoutRepeats ==
    returned => \A k \in 1..Len(result) :
        /\ \A g \in 1..Len(AllGroups) :
               Count(result[k].groups, AllGroups[g].id) > 0
                   <=> result[k].id \in AllGroups[g].members
        /\ \A m, n \in 1..Len(result[k].groups) :
               m < n => StrLess(result[k].groups[m], result[k].groups[n])

\* C10 amended: every returned Character's group list is ascending (not strictly) and
\* holds each id once for every group record of that id, club or school,
\* that has the character as member; so it repeats an id only when two such
\* records share the id
C10_GroupListPerRecord ==
    returned => \A k \in 1..Len(result) :
        /\ \A g \in 1..Len(AllGroups) :
               Count(result[k].groups, AllGroups[g].id) =
                   Cardinality({h \in 1..Len(AllGroups) :
                       /\ AllGroups[h].id = AllGroups[g].id
                       /\ result[k].id \in AllGroups[h].members})
        /\ \A m \in 1..Len(result[k].groups) :
               \E g \in 1..Len(AllGroups) : AllGroups[g].id = result[k].groups[m]
        /\ \A m, n \in 1..Len(result[k].groups) :
               m < n => ~StrLess(result[k].groups[n], result[k].groups[m])

\* C10 witness: a Character in a club and in two schools listed out of order
C10_Witness ==
    /\ returned
    /\ \E k \in 1..Len(result) : result[k].groups = << <<"A">>, <<"a">>, <<"b">> >>

====
